---- MODULE Spec2Model ----
(***************************************************************************)
(* A model of broadcasting.py: NumPy-style broadcasting and element-wise   *)
(* addition written from first principles.                                 *)
(*                                                                         *)
(* An ndarray is a record [shape, data]: shape is the tuple of axis sizes  *)
(* and data the elements in row-major (C) order.  Arrays live in a heap, a *)
(* sequence indexed by object identity, so that "the same array", "a fresh *)
(* array" and "an input was modified" are things the model can tell apart. *)
(* Heap cells 1 and 2 hold the caller's two arrays.                        *)
(*                                                                         *)
(* A behaviour is one call of one public function on those two arrays:     *)
(* broadcasted_shape and match_dimensions run as one step, add runs line   *)
(* by line.                                                                *)
(***************************************************************************)
EXTENDS Integers, Sequences, FiniteSets, TLC

\* Largest rank (number of axes) of an input array.
MaxRank == 2
\* Largest size of one axis of an input array; sizes range over 0..MaxDim.
MaxDim == 3
\* Largest number of elements of an input array.
MaxCells == 9

VARIABLES
    heap,          \* Seq of [shape, data]: every ndarray object alive
    call,          \* which public function the caller invoked ("" before)
    pc,            \* position inside the call
    arr,           \* add's local arr   (heap identity)
    arr2,          \* add's local arr2  (heap identity)
    output_shape,  \* add's local output_shape
    out,           \* add's local out (heap identity, 0 while unbound)
    it,            \* the np.ndindex iterator of add's for loop
    ret,           \* the returned value, as a tuple of integers
    exc,           \* the raised exception
    calls,         \* history: calls add has made to its helpers
    visited        \* history: coordinates add's loop has written, in order

vars == <<heap, call, pc, arr, arr2, output_shape, out, it, ret, exc,
          calls, visited>>

----------------------------------------------------------------------------
(* Tuples of integers *)

RECURSIVE Product(_)
Product(shape) ==
    IF shape = <<>> THEN 1 ELSE Head(shape) * Product(Tail(shape))

Reverse(s) == [k \in 1..Len(s) |-> s[Len(s) + 1 - k]]

Ones(n) == [k \in 1..n |-> 1]

Zeros(n) == [k \in 1..n |-> 0]

RECURSIVE TuplesUpTo(_)
TuplesUpTo(n) ==
    IF n = 0 THEN {<<>>}
    ELSE TuplesUpTo(n - 1)
         \cup {<<d>> \o s : d \in 0..MaxDim,
                            s \in {t \in TuplesUpTo(n - 1) : Len(t) = n - 1}}

\* Every shape an input array may have.
Shapes == {s \in TuplesUpTo(MaxRank) : Product(s) <= MaxCells}

----------------------------------------------------------------------------
(* ndarray *)

\* Position of coordinate idx in the row-major data of an array of this shape.
RECURSIVE Offset(_, _, _)
Offset(shape, idx, acc) ==
    IF shape = <<>> THEN acc
    ELSE Offset(Tail(shape), Tail(idx), acc * Head(shape) + Head(idx))

\* arr[idx] for a tuple idx: IndexError unless idx addresses one element.
Subscript(a, idx) ==
    IF /\ Len(idx) = Len(a.shape)
       /\ \A k \in 1..Len(idx) : idx[k] >= 0 /\ idx[k] < a.shape[k]
    THEN [ok |-> TRUE, value |-> a.data[Offset(a.shape, idx, 0) + 1]]
    ELSE [ok |-> FALSE, value |-> 0]

\* np.resize(a, new_shape): a new array of new_shape filled with the flattened
\* elements of a, repeated as often as needed (zeros when either is empty).
Resize(a, new_shape) ==
    LET size == Len(a.data)
        new_size == Product(new_shape)
    IN  [shape |-> new_shape,
         data  |-> IF size = 0 \/ new_size = 0
                   THEN [k \in 1..new_size |-> 0]
                   ELSE [k \in 1..new_size |-> a.data[((k - 1) % size) + 1]]]

\* np.ndindex(*shape): the coordinates of shape, last axis fastest.
\* An iterator is [shape, done, idx]: idx is what the next step of the loop
\* gets, done says that nothing is left.
NdindexFirst(shape) ==
    IF Product(shape) = 0 THEN [shape |-> shape, done |-> TRUE, idx |-> <<>>]
    ELSE [shape |-> shape, done |-> FALSE, idx |-> Zeros(Len(shape))]

RECURSIVE NdindexNext(_, _, _)
NdindexNext(shape, idx, k) ==
    IF k = 0 THEN [shape |-> shape, done |-> TRUE, idx |-> <<>>]
    ELSE IF idx[k] + 1 < shape[k]
         THEN [shape |-> shape, done |-> FALSE,
               idx |-> [idx EXCEPT ![k] = idx[k] + 1]]
         ELSE NdindexNext(shape, [idx EXCEPT ![k] = 0], k - 1)

----------------------------------------------------------------------------
(* broadcasting.py *)

\* minmax(arg, arg2, key=...): min and max return the first of equal items.
\* The key is a function on the two items.
minmax(arg, arg2, key) ==
    << IF key[arg2] < key[arg] THEN arg2 ELSE arg,
       IF key[arg2] > key[arg] THEN arg2 ELSE arg >>

\* match_dimensions, were the 1's appended to the shape: ts + (1,) * difference.
match_dimensions_appending(h, a, a2) ==
    IF Len(h[a].shape) = Len(h[a2].shape)
    THEN [heap |-> h, ret |-> <<a, a2>>]
    ELSE LET RankOf == [x \in {a, a2} |-> Len(h[x].shape)]
             mm == minmax(a, a2, RankOf)
             to_prepend == mm[1]
             larger == mm[2]
             ts == h[to_prepend].shape
             ls == h[larger].shape
             difference == Len(ls) - Len(ts)
             resized == Resize(h[to_prepend], ts \o Ones(difference))
         IN  [heap |-> Append(h, resized), ret |-> <<Len(h) + 1, larger>>]

\* match_dimensions, were the array resized in place: to_prepend.resize(...).
match_dimensions_in_place(h, a, a2) ==
    IF Len(h[a].shape) = Len(h[a2].shape)
    THEN [heap |-> h, ret |-> <<a, a2>>]
    ELSE LET RankOf == [x \in {a, a2} |-> Len(h[x].shape)]
             mm == minmax(a, a2, RankOf)
             to_prepend == mm[1]
             larger == mm[2]
             ts == h[to_prepend].shape
             ls == h[larger].shape
             difference == Len(ls) - Len(ts)
             resized == Resize(h[to_prepend], Ones(difference) \o ts)
         IN  [heap |-> [h EXCEPT ![to_prepend] = resized],
              ret |-> <<to_prepend, larger>>]

\* match_dimensions on heap h: the heap afterwards and the returned pair.
match_dimensions(h, a, a2) ==
    IF Len(h[a].shape) = Len(h[a2].shape)
    THEN [heap |-> h, ret |-> <<a, a2>>]
    ELSE LET RankOf == [x \in {a, a2} |-> Len(h[x].shape)]
             mm == minmax(a, a2, RankOf)
             to_prepend == mm[1]
             larger == mm[2]
             ts == h[to_prepend].shape
             ls == h[larger].shape
             difference == Len(ls) - Len(ts)
             resized == Resize(h[to_prepend], Ones(difference) \o ts)
         IN  [heap |-> Append(h, resized), ret |-> <<Len(h) + 1, larger>>]

\* The loop, were new_shape.append(dim) written for new_shape.insert(0, dim).
RECURSIVE BroadcastLoop_appending(_, _, _)
BroadcastLoop_appending(rs, rs2, new_shape) ==
    IF rs = <<>> \/ rs2 = <<>> THEN [raised |-> FALSE, value |-> new_shape]
    ELSE LET dim == Head(rs)
             dim2 == Head(rs2)
         IN  IF dim = dim2 \/ dim2 = 1
             THEN BroadcastLoop_appending(Tail(rs), Tail(rs2),
                                          Append(new_shape, dim))
             ELSE IF dim = 1
             THEN BroadcastLoop_appending(Tail(rs), Tail(rs2),
                                          Append(new_shape, dim2))
             ELSE [raised |-> TRUE, value |-> <<>>]

\* The loop, were the branch "elif dim == 1" missing.
RECURSIVE BroadcastLoop_one_sided(_, _, _)
BroadcastLoop_one_sided(rs, rs2, new_shape) ==
    IF rs = <<>> \/ rs2 = <<>> THEN [raised |-> FALSE, value |-> new_shape]
    ELSE LET dim == Head(rs)
             dim2 == Head(rs2)
         IN  IF dim = dim2 \/ dim2 = 1
             THEN BroadcastLoop_one_sided(Tail(rs), Tail(rs2),
                                          <<dim>> \o new_shape)
             ELSE [raised |-> TRUE, value |-> <<>>]

\* The loop, were the branch "elif dim == 1" to insert dim, not dim2.
RECURSIVE BroadcastLoop_keeps_dim(_, _, _)
BroadcastLoop_keeps_dim(rs, rs2, new_shape) ==
    IF rs = <<>> \/ rs2 = <<>> THEN [raised |-> FALSE, value |-> new_shape]
    ELSE LET dim == Head(rs)
             dim2 == Head(rs2)
         IN  IF dim = dim2 \/ dim2 = 1 \/ dim = 1
             THEN BroadcastLoop_keeps_dim(Tail(rs), Tail(rs2),
                                          <<dim>> \o new_shape)
             ELSE [raised |-> TRUE, value |-> <<>>]

\* The for loop of broadcasted_shape over zip(shape[::-1], shape2[::-1]):
\* rs, rs2 are what is left of the reversed shapes.
RECURSIVE BroadcastLoop(_, _, _)
BroadcastLoop(rs, rs2, new_shape) ==
    IF rs = <<>> \/ rs2 = <<>> THEN [raised |-> FALSE, value |-> new_shape]
    ELSE LET dim == Head(rs)
             dim2 == Head(rs2)
         IN  IF dim = dim2 \/ dim2 = 1
             THEN BroadcastLoop(Tail(rs), Tail(rs2), <<dim>> \o new_shape)
             ELSE IF dim = 1
             THEN BroadcastLoop(Tail(rs), Tail(rs2), <<dim2>> \o new_shape)
             ELSE [raised |-> TRUE, value |-> <<>>]

broadcasted_shape_one_sided(shape, shape2) ==
    LET r == BroadcastLoop_one_sided(Reverse(shape), Reverse(shape2), <<>>)
    IN  [raised |-> r.raised,
         value  |-> r.value,
         shapes |-> IF r.raised THEN <<shape, shape2>> ELSE <<>>]

broadcasted_shape_keeps_dim(shape, shape2) ==
    LET r == BroadcastLoop_keeps_dim(Reverse(shape), Reverse(shape2), <<>>)
    IN  [raised |-> r.raised,
         value  |-> r.value,
         shapes |-> IF r.raised THEN <<shape, shape2>> ELSE <<>>]

\* broadcasted_shape: the shape, or ValueError naming its two arguments.
broadcasted_shape(shape, shape2) ==
    LET r == BroadcastLoop(Reverse(shape), Reverse(shape2), <<>>)
    IN  [raised |-> r.raised,
         value  |-> r.value,
         shapes |-> IF r.raised THEN <<shape, shape2>> ELSE <<>>]

\* The tuple get_item builds: zip(arr.shape, indices) with 0 where dim is 1.
ModifiedIndices(shape, indices) ==
    LET n == IF Len(shape) < Len(indices) THEN Len(shape) ELSE Len(indices)
    IN  [k \in 1..n |-> IF shape[k] = 1 THEN 0 ELSE indices[k]]

\* get_item, were the indices used as they come: arr[indices].
get_item_unstretched(a, indices) == Subscript(a, indices)

get_item(a, indices) == Subscript(a, ModifiedIndices(a.shape, indices))

----------------------------------------------------------------------------
(* The caller's arrays *)

\* Element values: every cell of the first array and every cell of the second
\* gets its own value, and no two pairs of cells have the same sum, so a sum
\* tells which two cells were read.  (The code never branches on a value.)
Stride == MaxCells + 1

InputArray(shape, unit) ==
    [shape |-> shape, data |-> [k \in 1..Product(shape) |-> k * unit]]

NoExc == [kind |-> "none", shapes |-> <<>>]

NoIter == [shape |-> <<>>, done |-> TRUE, idx |-> <<>>]

Init ==
    /\ \E s \in Shapes, s2 \in Shapes :
          heap = <<InputArray(s, 1), InputArray(s2, Stride)>>
    /\ call = ""
    /\ pc = "idle"
    /\ arr = 1
    /\ arr2 = 2
    /\ output_shape = <<>>
    /\ out = 0
    /\ it = NoIter
    /\ ret = <<>>
    /\ exc = NoExc
    /\ calls = [match |-> 0, shape |-> 0]
    /\ visited = <<>>

----------------------------------------------------------------------------
(* Direct calls of the two helpers *)

BroadcastedShapeCall ==
    /\ pc = "idle"
    /\ LET r == broadcasted_shape(heap[1].shape, heap[2].shape)
       IN  /\ pc' = IF r.raised THEN "raised" ELSE "returned"
           /\ ret' = r.value
           /\ exc' = IF r.raised
                     THEN [kind |-> "ValueError", shapes |-> r.shapes]
                     ELSE NoExc
    /\ call' = "broadcasted_shape"
    /\ UNCHANGED <<heap, arr, arr2, output_shape, out, it, calls, visited>>

MatchDimensionsCall ==
    /\ pc = "idle"
    /\ LET r == match_dimensions(heap, 1, 2)
       IN  /\ heap' = r.heap
           /\ ret' = r.ret
    /\ pc' = "returned"
    /\ call' = "match_dimensions"
    /\ UNCHANGED <<arr, arr2, output_shape, out, it, exc, calls, visited>>

----------------------------------------------------------------------------
(* add, line by line *)

AddCall ==
    /\ pc = "idle"
    /\ call' = "add"
    /\ pc' = "match_dimensions"
    /\ UNCHANGED <<heap, arr, arr2, output_shape, out, it, ret, exc, calls,
                   visited>>

\* arr, arr2 = match_dimensions(arr, arr2)
AddMatchDimensions ==
    /\ pc = "match_dimensions"
    /\ LET r == match_dimensions(heap, arr, arr2)
       IN  /\ heap' = r.heap
           /\ arr' = r.ret[1]
           /\ arr2' = r.ret[2]
    /\ calls' = [calls EXCEPT !.match = @ + 1]
    /\ pc' = "broadcasted_shape"
    /\ UNCHANGED <<call, output_shape, out, it, ret, exc, visited>>

\* Line 79, were the error caught and add to carry on with an empty shape.
AddBroadcastedShape_swallowing ==
    /\ pc = "broadcasted_shape"
    /\ LET r == broadcasted_shape(heap[arr].shape, heap[arr2].shape)
       IN  /\ output_shape' = r.value
           /\ pc' = "empty"
           /\ UNCHANGED exc
    /\ calls' = [calls EXCEPT !.shape = @ + 1]
    /\ UNCHANGED <<heap, call, arr, arr2, out, it, ret, visited>>

\* output_shape = broadcasted_shape(arr.shape, arr2.shape)
AddBroadcastedShape ==
    /\ pc = "broadcasted_shape"
    /\ LET r == broadcasted_shape(heap[arr].shape, heap[arr2].shape)
       IN  IF r.raised
           THEN /\ exc' = [kind |-> "ValueError", shapes |-> r.shapes]
                /\ pc' = "raised"
                /\ UNCHANGED output_shape
           ELSE /\ output_shape' = r.value
                /\ pc' = "empty"
                /\ UNCHANGED exc
    /\ calls' = [calls EXCEPT !.shape = @ + 1]
    /\ UNCHANGED <<heap, call, arr, arr2, out, it, ret, visited>>

\* out = np.empty(output_shape, dtype=int): a new array of arbitrary content
AddEmpty ==
    /\ pc = "empty"
    /\ \E junk \in {0, Stride - 1} :
          heap' = Append(heap,
                         [shape |-> output_shape,
                          data  |-> [k \in 1..Product(output_shape) |-> junk]])
    /\ out' = Len(heap) + 1
    /\ pc' = "ndindex"
    /\ UNCHANGED <<call, arr, arr2, output_shape, it, ret, exc, calls,
                   visited>>

\* Line 82, were the loop to run over arr's shape: np.ndindex(*arr.shape).
AddNdindex_over_arr ==
    /\ pc = "ndindex"
    /\ it' = NdindexFirst(heap[arr].shape)
    /\ pc' = "loop"
    /\ UNCHANGED <<heap, call, arr, arr2, output_shape, out, ret, exc, calls,
                   visited>>

\* for indices in np.ndindex(*output_shape): the iterator is made
AddNdindex ==
    /\ pc = "ndindex"
    /\ it' = NdindexFirst(output_shape)
    /\ pc' = "loop"
    /\ UNCHANGED <<heap, call, arr, arr2, output_shape, out, ret, exc, calls,
                   visited>>

\* out[indices] = get_item(arr, indices) + get_item(arr2, indices)
AddLoopBody ==
    /\ pc = "loop"
    /\ ~it.done
    /\ LET indices == it.idx
           x == get_item(heap[arr], indices)
           x2 == get_item(heap[arr2], indices)
           cell == Subscript(heap[out], indices)
       IN  IF x.ok /\ x2.ok /\ cell.ok
           THEN /\ heap' = [heap EXCEPT ![out].data[
                               Offset(heap[out].shape, indices, 0) + 1] =
                                   x.value + x2.value]
                /\ visited' = Append(visited, indices)
                /\ it' = NdindexNext(it.shape, indices, Len(indices))
                /\ UNCHANGED <<pc, exc>>
           ELSE /\ exc' = [kind |-> "IndexError", shapes |-> <<>>]
                /\ pc' = "raised"
                /\ UNCHANGED <<heap, visited, it>>
    /\ UNCHANGED <<call, arr, arr2, output_shape, out, ret, calls>>

\* return out
AddReturn ==
    /\ pc = "loop"
    /\ it.done
    /\ ret' = <<out>>
    /\ pc' = "returned"
    /\ UNCHANGED <<heap, call, arr, arr2, output_shape, out, it, exc, calls,
                   visited>>

Next ==
    \/ BroadcastedShapeCall
    \/ MatchDimensionsCall
    \/ AddCall
    \/ AddMatchDimensions
    \/ AddBroadcastedShape
    \/ AddEmpty
    \/ AddNdindex
    \/ AddLoopBody
    \/ AddReturn

Spec == Init /\ [][Next]_vars

\* add runs to its end: no step of it waits for anything.
FairSpec == Spec /\ WF_vars(Next)

----------------------------------------------------------------------------
(* What the properties are stated with.  None of this is used by the model  *)
(* of the code above.                                                       *)

\* The caller's two arrays, as they were passed.
A == heap[1]

B == heap[2]

MaxOf(m, n) == IF m > n THEN m ELSE n

\* A shape with leading axes of size 1 up to rank n.
Padded(shape, n) == Ones(n - Len(shape)) \o shape

\* Two shapes of equal rank have an axis with unequal sizes, neither of them 1.
Clash(s, s2) ==
    \E k \in 1..Len(s) : s[k] # s2[k] /\ s[k] # 1 /\ s2[k] # 1

\* The size both shapes of equal rank broadcast to on each axis.
Combined(s, s2) ==
    [k \in 1..Len(s) |-> IF s[k] = s2[k] THEN s[k]
                         ELSE IF s2[k] = 1 THEN s[k] ELSE s2[k]]

\* Every coordinate of a shape.
Coords(shape) ==
    {c \in [1..Len(shape) -> 0..MaxDim] : \A k \in 1..Len(shape) : c[k] < shape[k]}

\* Coordinate c with 0 put on every axis where the shape is 1.
Stretched(shape, c) ==
    [k \in 1..Len(c) |-> IF shape[k] = 1 THEN 0 ELSE c[k]]

\* The element of array a that output coordinate c of rank n reads: a is taken
\* with leading axes of size 1, so the leading components of c do not count.
Element(a, c) ==
    LET n == Len(c)
        ca == Stretched(Padded(a.shape, n), c)
        own == SubSeq(ca, n - Len(a.shape) + 1, n)
    IN  a.data[Offset(a.shape, own, 0) + 1]

\* c comes before d in lexicographic order.
LexLess(c, d) ==
    \E k \in 1..Len(c) :
        /\ c[k] < d[k]
        /\ \A j \in 1..(k - 1) : c[j] = d[j]

RankN == MaxOf(Len(A.shape), Len(B.shape))

\* The caller's arrays are broadcast-compatible.
Compatible == ~Clash(Padded(A.shape, RankN), Padded(B.shape, RankN))

AddReturned == call = "add" /\ pc = "returned"

----------------------------------------------------------------------------
(* C1: for broadcast-compatible arrays a and b, of equal or different rank, *)
(* add returns an array of the broadcast shape whose element at every       *)
(* coordinate c is a[c_a] + b[c_b], c_a and c_b being c with 0 on the axes  *)
(* where the (rank-aligned) shape of a, of b, is 1.                         *)
C1_SumCorrect ==
    (call = "add" /\ Compatible) =>
        /\ pc # "raised"
        /\ pc = "returned" =>
              LET res == heap[ret[1]]
              IN  /\ res.shape = Combined(Padded(A.shape, RankN),
                                          Padded(B.shape, RankN))
                  /\ Len(res.data) = Product(res.shape)
                  /\ \A c \in Coords(res.shape) :
                        Subscript(res, c) =
                            [ok |-> TRUE, value |-> Element(A, c) + Element(B, c)]

\* add has returned for a higher-rank first operand and a lower-rank second
\* one, both stretched: the result has more cells than either.
C1_Witness ==
    /\ AddReturned
    /\ Len(A.shape) > Len(B.shape)
    /\ Len(B.shape) > 0
    /\ Len(heap[ret[1]].data) > Len(A.data)
    /\ Len(A.data) > 1
    /\ Len(B.data) > 1

(* C2: for two shapes of equal rank, broadcasted_shape raises the error if  *)
(* and only if some axis has unequal sizes neither of which is 1; otherwise *)
(* it returns a shape and raises nothing.                                   *)
C2_RaisesIffClash ==
    (call = "broadcasted_shape" /\ Len(A.shape) = Len(B.shape)) =>
        IF Clash(A.shape, B.shape)
        THEN pc = "raised" /\ exc.kind = "ValueError"
        ELSE pc = "returned" /\ exc = NoExc

\* broadcasted_shape has raised on two shapes of rank above 1 that agree on
\* the last axis: the clash is on an outer axis.
C2_Witness ==
    /\ call = "broadcasted_shape"
    /\ pc = "raised"
    /\ Len(A.shape) = Len(B.shape)
    /\ Len(A.shape) > 1
    /\ A.shape[Len(A.shape)] = B.shape[Len(B.shape)]

(* C3: for two compatible shapes of equal rank n, broadcasted_shape returns *)
(* a shape of rank n, outermost axis first, whose axis i is d when d = d2,  *)
(* d when d2 = 1 and d2 when d = 1; so a shape with itself gives itself,    *)
(* and a shape with the all-ones shape gives itself.                        *)
C3_ShapeAxiswise ==
    (/\ call = "broadcasted_shape"
     /\ Len(A.shape) = Len(B.shape)
     /\ ~Clash(A.shape, B.shape)) =>
        /\ Len(ret) = Len(A.shape)
        /\ \A i \in 1..Len(A.shape) :
              LET d == A.shape[i]
                  d2 == B.shape[i]
              IN  /\ d = d2 => ret[i] = d
                  /\ d2 = 1 => ret[i] = d
                  /\ d = 1 => ret[i] = d2
        /\ A.shape = B.shape => ret = A.shape
        /\ B.shape = Ones(Len(A.shape)) => ret = A.shape

\* broadcasted_shape has returned a shape that is not its own reverse, from
\* two different shapes each stretched on one axis.
C3_Witness ==
    /\ call = "broadcasted_shape"
    /\ pc = "returned"
    /\ Len(A.shape) = Len(B.shape)
    /\ ret # Reverse(ret)
    /\ ret # A.shape
    /\ ret # B.shape

(* C4: broadcasted_shape is symmetric: it raises on (s1, s2) exactly when   *)
(* it raises on (s2, s1), and otherwise returns the same shape for both.    *)
C4_Symmetric ==
    call = "broadcasted_shape" =>
        LET swapped == broadcasted_shape(B.shape, A.shape)
        IN  /\ (pc = "raised") = swapped.raised
            /\ pc = "returned" => ret = swapped.value

\* broadcasted_shape has returned for two shapes where one is stretched on
\* an axis and the other is not.
C4_Witness ==
    /\ call = "broadcasted_shape"
    /\ pc = "returned"
    /\ Len(A.shape) = Len(B.shape)
    /\ \E k \in 1..Len(A.shape) : A.shape[k] = 1 /\ B.shape[k] > 1

(* C5: the aligner returns its results in the order of its arguments: the   *)
(* first result is the first array and the second the second, both of equal *)
(* rank; the higher-rank one is returned as it is, the lower-rank one with   *)
(* exactly the missing number of axes of size 1 prepended; with equal ranks *)
(* both are returned as they are.                                           *)
C5_AlignerKeepsOrder ==
    (call = "match_dimensions" /\ pc = "returned") =>
        LET first == heap[ret[1]]
            second == heap[ret[2]]
        IN  /\ Len(ret) = 2
            /\ first.shape = Padded(A.shape, RankN)
            /\ first.data = A.data
            /\ second.shape = Padded(B.shape, RankN)
            /\ second.data = B.data
            /\ Len(A.shape) >= Len(B.shape) => ret[1] = 1
            /\ Len(B.shape) >= Len(A.shape) => ret[2] = 2

(* C6: when add fails with the broadcast error, the error carries the two   *)
(* shapes the caller's arrays had before alignment, in full.                *)
C6_ErrorCarriesOriginalShapes ==
    (call = "add" /\ pc = "raised") =>
        /\ exc.kind = "ValueError"
        /\ exc.shapes = <<A.shape, B.shape>>

(* C7: no step of any call changes the shape or the contents of either of   *)
(* the caller's arrays, and the array add returns is a new object: neither  *)
(* of the caller's arrays nor one of the aligned operands.                  *)
C7_InputsUntouched ==
    [][/\ heap'[1] = heap[1]
       /\ heap'[2] = heap[2]
       /\ (call' = "add" /\ pc' = "returned") =>
              /\ ret'[1] \notin {1, 2, arr, arr2}
              /\ ret'[1] = Len(heap)
              /\ ret'[1] = out]_vars

\* add has returned a non-empty result after aligning a lower-rank operand.
C7_Witness ==
    /\ AddReturned
    /\ Len(A.shape) # Len(B.shape)
    /\ Len(heap) = 4
    /\ heap[4].data # <<>>

(* C8: add calls the aligner once, then the broadcaster once, and only then *)
(* allocates the output and runs the loop; for incompatible shapes add ends *)
(* in the error with no output allocated, no cell written, nothing returned.*)
C8_OrderAndAbort ==
    call = "add" =>
        /\ calls.match <= 1
        /\ calls.shape <= calls.match
        /\ (out # 0 \/ visited # <<>> \/ pc \in {"returned", "raised"}) =>
              calls.match = 1 /\ calls.shape = 1
        /\ ~Compatible =>
              /\ out = 0
              /\ visited = <<>>
              /\ ret = <<>>
              /\ Len(heap) <= 3
              /\ pc \in {"match_dimensions", "broadcasted_shape", "raised"}

\* add has raised the broadcast error on operands of different rank.
C8_Witness ==
    /\ call = "add"
    /\ pc = "raised"
    /\ exc.kind = "ValueError"
    /\ Len(A.shape) # Len(B.shape)
    /\ Len(heap) = 3

\* The loop so far: coordinates of the output, each after the one before.
VisitedInOrder ==
    /\ \A k \in 1..Len(visited) : visited[k] \in Coords(output_shape)
    /\ \A k \in 1..(Len(visited) - 1) : LexLess(visited[k], visited[k + 1])

(* C9: for compatible inputs the loop of add ends, after exactly            *)
(* product(output_shape) iterations, having visited the output coordinates  *)
(* in lexicographic order and written every cell exactly once.              *)
C9_LoopTerminates ==
    /\ [](call = "add" => VisitedInOrder)
    /\ [](AddReturned =>
            /\ Len(visited) = Product(output_shape)
            /\ {visited[k] : k \in 1..Len(visited)} = Coords(output_shape))
    /\ (call = "add" /\ Compatible) ~> AddReturned

\* add has returned an output with more than one cell on each of two axes.
C9_Witness ==
    /\ AddReturned
    /\ Len(output_shape) >= 2
    /\ \A k \in 1..2 : output_shape[k] >= 2
    /\ Len(visited) >= 4

(* C10: inside add every lookup of get_item is in bounds of the operand:    *)
(* the stretched coordinate has the operand's rank and each component is    *)
(* less than the operand's size on that axis, so the only error add raises  *)
(* is the broadcast error (also when an axis has size 0).                   *)
C10_LookupsInBounds ==
    call = "add" =>
        /\ exc.kind \in {"none", "ValueError"}
        /\ (pc = "loop" /\ ~it.done) =>
              \A x \in {arr, arr2} :
                  LET sc == Stretched(heap[x].shape, it.idx)
                  IN  /\ Len(it.idx) = Len(heap[x].shape)
                      /\ \A k \in 1..Len(sc) :
                            sc[k] >= 0 /\ sc[k] < heap[x].shape[k]

\* The loop is about to read an operand at a coordinate beyond its own shape.
C10_Witness ==
    /\ call = "add"
    /\ pc = "loop"
    /\ ~it.done
    /\ \E k \in 1..Len(it.idx) : it.idx[k] >= heap[arr].shape[k]
    /\ visited # <<>>

====
